---------------------------- MODULE Spec2Model ----------------------------
(***************************************************************************)
(* A model of lib/spack/spack/cmd/info.py, the "spack info" command:       *)
(* the report driver info(), the variant renderer _fmt_variant and the     *)
(* grouper print_variants, the one-field formatters, and the column-width  *)
(* computation of the legacy VariantFormatter.                             *)
(*                                                                         *)
(* Text is modelled at the level of output lines: every call of            *)
(* color.cprint / print / out.write is one record appended to the stream,  *)
(* tagged with the statement that wrote it.  Word wrapping (textwrap) and  *)
(* colour markup are not modelled: a line carries the tokens it shows.     *)
(***************************************************************************)
EXTENDS Integers, Sequences, FiniteSets, TLC

VARIABLES
    pkg, out, pc,                  \* print_variants(pkg): input, stdout, position
    fv, fv_out, fv_pc,             \* one call of _fmt_variant: arguments, stream, position
    args, faulty, idx, invoked, status,   \* info(): flags, failing formatter, loop index, calls made
    fpkg, called, fout,            \* a one-field formatter: package fields, formatter run, stdout
    cols, vpkg, vf, vf_status      \* VariantFormatter(pkg): terminal width, contents, object, outcome

vars == <<pkg, out, pc, fv, fv_out, fv_pc, args, faulty, idx, invoked, status,
          fpkg, called, fout, cols, vpkg, vf, vf_status>>

varsVariants == <<pkg, out, pc>>
varsFmt      == <<fv, fv_out, fv_pc>>
varsInfo     == <<args, faulty, idx, invoked, status>>
varsFields   == <<fpkg, called, fout>>
varsWidths   == <<cols, vpkg, vf, vf_status>>

---------------------------------------------------------------------------
(* Bounds of the model.                                                    *)
MaxDefs == 3        \* variant definitions of a package, over all names and conditions
MaxVals == 3        \* entries of one variant's values
MaxCols == 80       \* terminal widths 0..MaxCols

---------------------------------------------------------------------------
(* Python values a variant's default and values hold: bool, str, None.     *)
(* A str is an index into StrTab, which is in ascending str order, so that *)
(* Python's < on two str is < on their indices.                            *)
StrTab == <<"auto", "none", "static">>

PyBool(b) == <<"bool", b>>          \* b = 1 for True, 0 for False
PyStr(i)  == <<"str", i>>
PyNone    == <<"NoneType", 0>>

PyTrue  == PyBool(1)
PyFalse == PyBool(0)
NoneStr == PyStr(2)                 \* the str "none"

Bools  == {PyTrue, PyFalse}
Strs   == {PyStr(i) : i \in 1..Len(StrTab)}
Values == Bools \cup Strs \cup {PyNone}

\* str(v)
str(v) ==
    CASE v[1] = "bool"     -> IF v[2] = 1 THEN "True" ELSE "False"
      [] v[1] = "NoneType" -> "None"
      [] v[1] = "str"      -> StrTab[v[2]]

\* s.lower(), on the strings str() yields for None and bool
lower(s) ==
    CASE s = "True"  -> "true"
      [] s = "False" -> "false"
      [] s = "None"  -> "none"
      [] OTHER       -> s

\* isinstance(v, bool)
IsBool(v) == v[1] = "bool"

\* The empty Spec(), the unconditional condition; other conditions by their text.
EmptySpec == ""
Whens == {EmptySpec, "+mpi", "platform=linux"}

---------------------------------------------------------------------------
(* _fmt_value, _fmt_name_and_default                                       *)

\* A _fmt_value that leaves out the .lower() of line 250.
fmt_value_literal(v) == str(v)

_fmt_value(v) ==
    IF v = PyNone \/ IsBool(v) THEN lower(str(v)) ELSE str(v)

\* The two parts the colorized "name [default]" is made of.
_fmt_name_and_default(variant) ==
    [name |-> variant.name, default |-> _fmt_value(variant.default)]

\* color.clen of "{name} [{default}]": the text without its colour escapes.
clen_name_and_default(variant) ==
    Len(variant.name) + Len(" [") + Len(_fmt_value(variant.default)) + Len("]")

---------------------------------------------------------------------------
(* sorted(values, key=lambda v: (v != "none", v))                          *)

\* The key's first component: False (0) for the str "none", True (1) otherwise.
KeyFirst(v) == IF v = NoneStr THEN 0 ELSE 1

\* Python's < on two values of one type.
PyLess(a, b) == a[2] < b[2]

\* The comparison of a sort on the value alone.
KeyLessNatural(a, b) == a # b /\ PyLess(a, b)

\* Tuple comparison key(a) < key(b): the first components decide unless equal.
KeyLess(a, b) ==
    \/ KeyFirst(a) < KeyFirst(b)
    \/ KeyFirst(a) = KeyFirst(b) /\ a # b /\ PyLess(a, b)

\* Insert x into the sorted s after every element not greater than it (stable).
RECURSIVE InsertSorted(_, _)
InsertSorted(s, x) ==
    IF s = <<>> THEN <<x>>
    ELSE IF KeyLess(x, s[Len(s)]) THEN Append(InsertSorted(SubSeq(s, 1, Len(s) - 1), x), s[Len(s)])
    ELSE Append(s, x)

RECURSIVE sorted_values(_)
sorted_values(values) ==
    IF values = <<>> THEN <<>>
    ELSE InsertSorted(sorted_values(SubSeq(values, 1, Len(values) - 1)), values[Len(values)])

---------------------------------------------------------------------------
(* _fmt_variant(variant, when, max_name_default_len, indent, out)          *)
(* A variant is [name, default, values, description]; values is            *)
(* [shape, items], shape the Python type of variant.values, and for a      *)
(* scalar items is the one-element sequence holding the scalar itself.     *)

SeqShapes == {"tuple", "list", "DisjointSetsOfValues"}

\* isinstance(variant.values, (tuple, list, spack.variant.DisjointSetsOfValues))
IsSequenceShape(values) == values.shape \in SeqShapes

Pad == 4

\* line 285: print(type(values), values), run when the values were wrapped
DebugPrint(values) ==
    <<[kind |-> "print", text |-> "<class 'list'>", values |-> values]>>

ShownDefault(variant) == _fmt_name_and_default(variant).default

\* A "when" line written whatever the condition.
WhenLineAlways(when, indent) ==
    <<[kind |-> "when", indent |-> indent * 2, when |-> when]>>

\* lines 308-309: the "when <spec>" line
WhenLine(when, indent) ==
    IF when # EmptySpec
    THEN <<[kind |-> "when", indent |-> indent * 2, when |-> when]>>
    ELSE <<>>

\* lines 288, 295: the sorted values, each through _fmt_value
ShownValues(values) ==
    LET sv == sorted_values(values)
    IN  [i \in 1..Len(sv) |-> _fmt_value(sv[i])]

_fmt_variant(variant, when, max_name_default_len, indent) ==
    LET name_default_len == clen_name_and_default(variant)
        wrapped == ~IsSequenceShape(variant.values)
        values  == variant.values.items      \* [variant.values] when wrapped
    IN  (IF wrapped THEN DebugPrint(values) ELSE <<>>)
        \o <<[kind    |-> "name_values",
              indent  |-> indent,
              name    |-> variant.name,
              default |-> ShownDefault(variant),
              \* value_indent less the slice taken off formatted_values, line 301
              gap     |-> (indent + max_name_default_len + Pad)
                          - (indent + name_default_len + Pad) + Pad,
              values  |-> ShownValues(values)]>>
        \o WhenLine(when, indent)
        \o <<[kind |-> "description", indent |-> indent * 3,
              text |-> variant.description]>>

---------------------------------------------------------------------------
(* Variant names, as sequences of letters (a = 1 .. z = 26).               *)
NameDebug == <<4, 5, 2, 21, 7>>     \* "debug"
NameMpi   == <<13, 16, 9>>          \* "mpi"
Names     == {NameDebug, NameMpi}

Indent == 4

\* The definitions one name can carry: one, and the three that differ from
\* it in the default, in the values, in the description alone.
Variant(n, d, v, t) == [name |-> n, default |-> d, values |-> v, description |-> t]

BoolValues == [shape |-> "tuple", items |-> <<PyTrue, PyFalse>>]

VariantChoices(n) ==
    { Variant(n, PyTrue,  BoolValues, "enable the feature"),
      Variant(n, PyFalse, BoolValues, "enable the feature"),
      Variant(n, PyTrue,  [shape |-> "scalar", items |-> <<PyNone>>], "enable the feature"),
      Variant(n, PyTrue,  BoolValues, "enable the feature\non this platform") }

\* Variant.__eq__ of spack.variant: structural equality of two definitions.
VariantEq(a, b) ==
    /\ a.name = b.name
    /\ a.default = b.default
    /\ a.values = b.values
    /\ a.description = b.description

\* pkg.variants_by_name(when=True), in the order its items() iterates: a
\* sequence of [name, when_variants], when_variants a sequence of
\* [when, variants] in the order of the dict, variants a non-empty list.
EntryNames(p) == {p[i].name : i \in 1..Len(p)}
EntryWhens(e) == {e.when_variants[i].when : i \in 1..Len(e.when_variants)}

IndexOfName(p, n) == CHOOSE i \in 1..Len(p) : p[i].name = n
IndexOfWhen(wv, w) == CHOOSE i \in 1..Len(wv) : wv[i].when = w

\* The by-name mapping after one more variant directive, variant(n, ..., when=w),
\* has declared definition v: dict insertion, a new key going last.
WithVariant(p, n, w, v) ==
    IF n \notin EntryNames(p)
    THEN Append(p, [name |-> n, when_variants |-> <<[when |-> w, variants |-> <<v>>]>>])
    ELSE LET i  == IndexOfName(p, n)
             wv == p[i].when_variants
         IN  IF w \notin EntryWhens(p[i])
             THEN [p EXCEPT ![i].when_variants = Append(wv, [when |-> w, variants |-> <<v>>])]
             ELSE [p EXCEPT ![i].when_variants[IndexOfWhen(wv, w)].variants = Append(@, v)]

---------------------------------------------------------------------------
(* print_variants(pkg)                                                     *)

RECURSIVE Flatten(_)
Flatten(ss) == IF ss = <<>> THEN <<>> ELSE Head(ss) \o Flatten(Tail(ss))

\* sum(when_variants.values(), start=[])
AllVariants(when_variants) ==
    Flatten([i \in 1..Len(when_variants) |-> when_variants[i].variants])

\* Every variant of the package, as lines 331-333 iterate them.
PackageVariants(p) ==
    Flatten([i \in 1..Len(p) |-> AllVariants(p[i].when_variants)])

SetMax(S) == CHOOSE m \in S : \A x \in S : x <= m

\* lines 329-334
max_name_default_len(p) ==
    LET vs == PackageVariants(p)
    IN  SetMax({clen_name_and_default(vs[i]) : i \in 1..Len(vs)})

\* A marker that does not compare the definitions.
MarkerAlwaysSame(name, when_variants) ==
    <<[kind |-> "marker", name |-> name, mark |-> "same"]>>

\* lines 346-350: the "--> name (same)" / "(different)" line
Marker(name, when_variants) ==
    LET all_variants == AllVariants(when_variants)
    IN  IF ~ \A i \in 1..Len(all_variants) : VariantEq(all_variants[i], all_variants[1])
        THEN <<[kind |-> "marker", name |-> name, mark |-> "different"]>>
        ELSE <<[kind |-> "marker", name |-> name, mark |-> "same"]>>

\* lines 352-354: every variant of every condition
FmtAllConditions(when_variants, maxlen) ==
    Flatten([i \in 1..Len(when_variants) |->
        Flatten([j \in 1..Len(when_variants[i].variants) |->
            _fmt_variant(when_variants[i].variants[j], when_variants[i].when,
                         maxlen, Indent)])])

\* lines 339-358: one pass of the loop over variants_by_name.items()
VariantEntry(e, maxlen) ==
    <<[kind |-> "pprint", when_variants |-> e.when_variants]>>
    \o (IF Len(e.when_variants) > 1
        THEN <<[kind |-> "print", text |-> "variants", count |-> Len(e.when_variants)]>>
             \o Marker(e.name, e.when_variants)
             \o FmtAllConditions(e.when_variants, maxlen)
        ELSE _fmt_variant(e.when_variants[1].variants[1], e.when_variants[1].when,
                          maxlen, Indent))

\* The order the loop of line 339 visits the names in.
IterationOrder(p) == p

print_variants(p) ==
    IF p = <<>>
    THEN <<[kind |-> "print", text |-> "    None"]>>
    ELSE LET maxlen == max_name_default_len(p)
             order  == IterationOrder(p)
         IN  <<[kind |-> "cprint", text |-> ""],
               [kind |-> "cprint", text |-> "Variants:"]>>
             \o Flatten([i \in 1..Len(order) |-> VariantEntry(order[i], maxlen)])

---------------------------------------------------------------------------
(* Idle values of the variables a specification does not use.              *)
IdleVariants == pkg = <<>> /\ out = <<>> /\ pc = "idle"
IdleFmt      == fv = <<>> /\ fv_out = <<>> /\ fv_pc = "idle"
IdleInfo     == args = <<>> /\ faulty = "none" /\ idx = 0 /\ invoked = <<>> /\ status = "idle"
IdleFields   == fpkg = <<>> /\ called = "none" /\ fout = <<>>
IdleWidths   == cols = 0 /\ vpkg = <<>> /\ vf = <<>> /\ vf_status = "idle"

---------------------------------------------------------------------------
(* Spec: one run of print_variants on a package.                           *)
Init ==
    /\ pkg = <<>>
    /\ out = <<>>
    /\ pc = "start"
    /\ IdleFmt /\ IdleInfo /\ IdleFields /\ IdleWidths

\* A variant directive of the package file, run when the package class is made.
DeclareVariant ==
    /\ pc = "start"
    /\ Len(PackageVariants(pkg)) < MaxDefs
    /\ \E n \in Names, w \in Whens :
         \E v \in VariantChoices(n) : pkg' = WithVariant(pkg, n, w, v)
    /\ UNCHANGED <<out, pc, varsFmt, varsInfo, varsFields, varsWidths>>

PrintVariants ==
    /\ pc = "start"
    /\ out' = out \o print_variants(pkg)
    /\ pc' = "done"
    /\ UNCHANGED <<pkg, varsFmt, varsInfo, varsFields, varsWidths>>

Next == DeclareVariant \/ PrintVariants

Spec == Init /\ [][Next]_vars

---------------------------------------------------------------------------
(* SpecFmt: one call of _fmt_variant.                                      *)

RECURSIVE SeqsUpTo(_, _)
SeqsUpTo(S, n) ==
    IF n = 0 THEN {<<>>}
    ELSE LET shorter == SeqsUpTo(S, n - 1)
         IN  shorter \cup {Append(s, x) : <<s, x>> \in shorter \X S}

\* variant.values: a sequence type over values of one type, or a scalar.
ValuesChoices ==
    { [shape |-> sh, items |-> it] :
        <<sh, it>> \in SeqShapes \X (SeqsUpTo(Bools, MaxVals) \cup SeqsUpTo(Strs, MaxVals)) }
    \cup { [shape |-> "scalar", items |-> <<v>>] : v \in Values }

InitFmt ==
    /\ fv \in { [variant |-> Variant(NameMpi, d, v, "enable the feature"),
                 when |-> w,
                 \* the longest "name [default]" of the package: this one, or a longer one
                 max_name_default_len |->
                     clen_name_and_default(Variant(NameMpi, d, v, "")) + slack,
                 indent |-> Indent] :
               <<d, v, w, slack>> \in (Bools \cup Strs) \X ValuesChoices \X Whens \X {0, 2} }
    /\ fv_out = <<>>
    /\ fv_pc = "call"
    /\ IdleVariants /\ IdleInfo /\ IdleFields /\ IdleWidths

FmtVariant ==
    /\ fv_pc = "call"
    /\ fv_out' = fv_out \o _fmt_variant(fv.variant, fv.when, fv.max_name_default_len, fv.indent)
    /\ fv_pc' = "return"
    /\ UNCHANGED <<fv, varsVariants, varsInfo, varsFields, varsWidths>>

NextFmt == FmtVariant

SpecFmt == InitFmt /\ [][NextFmt]_vars

---------------------------------------------------------------------------
(* SpecInfo: the report driver info(parser, args).                         *)

Flags == {"all", "maintainers", "detectable", "tags", "no_versions", "no_variants",
          "phases", "no_dependencies", "virtuals", "tests"}

\* The flags with the "all" override left off the versions section.
print_it_without_all(a, func) ==
    CASE func = "print_maintainers"  -> a["all"] \/ a["maintainers"]
      [] func = "print_detectable"   -> a["all"] \/ a["detectable"]
      [] func = "print_tags"         -> a["all"] \/ a["tags"]
      [] func = "print_versions"     -> ~a["no_versions"]
      [] func = "print_variants"     -> a["all"] \/ ~a["no_variants"]
      [] func = "print_phases"       -> a["all"] \/ a["phases"]
      [] func = "print_dependencies" -> a["all"] \/ ~a["no_dependencies"]
      [] func = "print_virtuals"     -> a["all"] \/ a["virtuals"]
      [] func = "print_tests"        -> a["all"] \/ a["tests"]

\* lines 445-453: the flag paired with each formatter
print_it(a, func) ==
    CASE func = "print_maintainers"  -> a["all"] \/ a["maintainers"]
      [] func = "print_detectable"   -> a["all"] \/ a["detectable"]
      [] func = "print_tags"         -> a["all"] \/ a["tags"]
      [] func = "print_versions"     -> a["all"] \/ ~a["no_versions"]
      [] func = "print_variants"     -> a["all"] \/ ~a["no_variants"]
      [] func = "print_phases"       -> a["all"] \/ a["phases"]
      [] func = "print_dependencies" -> a["all"] \/ ~a["no_dependencies"]
      [] func = "print_virtuals"     -> a["all"] \/ a["virtuals"]
      [] func = "print_tests"        -> a["all"] \/ a["tests"]

\* lines 444-454: the formatters, in the order of the list
sections ==
    <<"print_maintainers", "print_detectable", "print_tags", "print_versions",
      "print_variants", "print_phases", "print_dependencies", "print_virtuals",
      "print_tests">>

Formatters == {sections[i] : i \in 1..Len(sections)}

\* args is what the parser made of the command line; faulty is the formatter,
\* if any, that raises on this package.
InitInfo ==
    /\ args \in [Flags -> BOOLEAN]
    /\ faulty \in Formatters \cup {"none"}
    /\ idx = 0
    /\ invoked = <<>>
    /\ status = "start"
    /\ IdleVariants /\ IdleFmt /\ IdleFields /\ IdleWidths

\* lines 426-441: the package is made, header, description and homepage are printed
InfoHeader ==
    /\ status = "start"
    /\ status' = "sections"
    /\ idx' = 1
    /\ UNCHANGED <<args, faulty, invoked, varsVariants, varsFmt, varsFields, varsWidths>>

\* lines 455-456: a pair whose flag is false
InfoSkip ==
    /\ status = "sections" /\ idx <= Len(sections)
    /\ ~print_it(args, sections[idx])
    /\ idx' = idx + 1
    /\ UNCHANGED <<args, faulty, invoked, status, varsVariants, varsFmt, varsFields, varsWidths>>

\* line 457: func(pkg) returns
InfoCall ==
    /\ status = "sections" /\ idx <= Len(sections)
    /\ print_it(args, sections[idx])
    /\ sections[idx] # faulty
    /\ invoked' = Append(invoked, sections[idx])
    /\ idx' = idx + 1
    /\ UNCHANGED <<args, faulty, status, varsVariants, varsFmt, varsFields, varsWidths>>

\* line 457: func(pkg) raises; nothing in info() catches it
InfoRaise ==
    /\ status = "sections" /\ idx <= Len(sections)
    /\ print_it(args, sections[idx])
    /\ sections[idx] = faulty
    /\ invoked' = Append(invoked, sections[idx])
    /\ status' = "raised"
    /\ UNCHANGED <<args, faulty, idx, varsVariants, varsFmt, varsFields, varsWidths>>

\* line 459: the loop is over
InfoReturn ==
    /\ status = "sections" /\ idx > Len(sections)
    /\ status' = "done"
    /\ UNCHANGED <<args, faulty, idx, invoked, varsVariants, varsFmt, varsFields, varsWidths>>

NextInfo == InfoHeader \/ InfoSkip \/ InfoCall \/ InfoRaise \/ InfoReturn

SpecInfo == InitInfo /\ [][NextInfo]_vars

---------------------------------------------------------------------------
(* SpecFields: the one-field formatters, each run alone on a package.      *)
(* A name (maintainer, tag, phase, callback, spec) is its rank in str      *)
(* order, so that sorted() is ascending order of ranks.                    *)

cprint(text)  == [kind |-> "cprint", text |-> text]
title(text)   == [kind |-> "title", text |-> text]     \* cprint(section_title(text))
NoneLine      == cprint("    None")

RECURSIVE InsertRank(_, _)
InsertRank(s, x) ==
    IF s = <<>> THEN <<x>>
    ELSE IF x < s[Len(s)] THEN Append(InsertRank(SubSeq(s, 1, Len(s) - 1), x), s[Len(s)])
    ELSE Append(s, x)

RECURSIVE sorted(_)
sorted(s) ==
    IF s = <<>> THEN <<>>
    ELSE InsertRank(sorted(SubSeq(s, 1, Len(s) - 1)), s[Len(s)])

reversed(s) == [i \in 1..Len(s) |-> s[Len(s) + 1 - i]]

\* llnl.util.tty.colify.colify(elts, indent=4): the tokens in columns; an
\* empty list prints nothing.
colify(elts) ==
    IF elts = <<>> THEN <<>> ELSE <<[kind |-> "colify", indent |-> Indent, elts |-> elts]>>

print_maintainers(p) ==
    IF Len(p.maintainers) > 0
    THEN <<cprint(""), [kind |-> "title", text |-> "Maintainers: ", names |-> p.maintainers]>>
    ELSE <<>>

print_detectable(p) ==
    <<cprint(""), title("Externally Detectable: ")>>
    \o (IF p.executables \/ p.libraries
        THEN LET find_attributes ==
                     (IF p.determine_version THEN <<"version">> ELSE <<>>)
                     \o (IF p.determine_variants THEN <<"variants">> ELSE <<>>)
             IN  <<[kind |-> "cprint", text |-> "    True", attributes |-> find_attributes]>>
        ELSE <<cprint("    False")>>)

print_phases(p) ==
    IF p.phases.present /\ p.phases.items # <<>>
    THEN <<cprint(""), title("Installation Phases:"),
           [kind |-> "cprint", text |-> "phases", phases |-> p.phases.items]>>
    ELSE <<>>

print_tags(p) ==
    <<cprint(""), title("Tags: ")>>
    \o (IF p.tags.present THEN colify(sorted(p.tags.items)) ELSE <<NoneLine>>)

\* lines 220-235: one of the two passes of the loop
TestPhase(p, callbacks, phase) ==
    LET names == IF callbacks.present
                 THEN SelectSeq(callbacks.items, LAMBDA name : name \in p.methods)
                 ELSE <<>>
    IN  <<cprint(""), [kind |-> "title", text |-> "Available Phase Test Methods:", phase |-> phase]>>
        \o (IF names # <<>> THEN colify(sorted(names)) ELSE <<NoneLine>>)

print_tests(p) ==
    TestPhase(p, p.build_time_test_callbacks, "Build")
    \o TestPhase(p, p.install_time_test_callbacks, "Install")
    \o <<cprint(""), title("Stand-Alone/Smoke Test Methods:")>>
    \o (IF p.test_function_names # <<>> THEN colify(sorted(p.test_function_names))
        ELSE <<NoneLine>>)

\* pkg.provided.items() sorted by their key, the when spec
RECURSIVE InsertItem(_, _)
InsertItem(s, x) ==
    IF s = <<>> THEN <<x>>
    ELSE IF x.when < s[Len(s)].when
         THEN Append(InsertItem(SubSeq(s, 1, Len(s) - 1), x), s[Len(s)])
    ELSE Append(s, x)

RECURSIVE sorted_items(_)
sorted_items(s) ==
    IF s = <<>> THEN <<>>
    ELSE InsertItem(sorted_items(SubSeq(s, 1, Len(s) - 1)), s[Len(s)])

print_virtuals(p) ==
    <<cprint(""), title("Virtual Packages: ")>>
    \o (IF p.provided # <<>>
        THEN LET items == reversed(sorted_items(p.provided))
             IN  [i \in 1..Len(items) |->
                     [kind |-> "print", text |-> "provides",
                      when |-> items[i].when, specs |-> items[i].specs]]
        ELSE <<NoneLine>>)

\* The metadata the formatters read.  "present" is what hasattr / getattr find.
NameLists    == {<<>>, <<2, 1>>}
OptionalList == {[present |-> FALSE, items |-> <<>>]}
                \cup {[present |-> TRUE, items |-> l] : l \in NameLists}
Provided     == {<<>>, <<[when |-> 1, specs |-> <<1>>], [when |-> 2, specs |-> <<2, 1>>]>>}

FieldPackages ==
    [maintainers : NameLists,
     tags : OptionalList,
     executables : BOOLEAN, libraries : BOOLEAN,
     determine_version : BOOLEAN, determine_variants : BOOLEAN,
     phases : OptionalList,
     build_time_test_callbacks : OptionalList,
     install_time_test_callbacks : OptionalList,
     methods : {{}, {1, 2}},
     test_function_names : NameLists,
     provided : Provided]

InitFields ==
    /\ fpkg \in FieldPackages
    /\ called = "none"
    /\ fout = <<>>
    /\ IdleVariants /\ IdleFmt /\ IdleInfo /\ IdleWidths

Run(func, lines) ==
    /\ called = "none"
    /\ called' = func
    /\ fout' = fout \o lines
    /\ UNCHANGED <<fpkg, varsVariants, varsFmt, varsInfo, varsWidths>>

PrintMaintainers == Run("print_maintainers", print_maintainers(fpkg))
PrintDetectable  == Run("print_detectable", print_detectable(fpkg))
PrintPhases      == Run("print_phases", print_phases(fpkg))
PrintTags        == Run("print_tags", print_tags(fpkg))
PrintTests       == Run("print_tests", print_tests(fpkg))
PrintVirtuals    == Run("print_virtuals", print_virtuals(fpkg))

NextFields ==
    \/ PrintMaintainers \/ PrintDetectable \/ PrintPhases
    \/ PrintTags \/ PrintTests \/ PrintVirtuals

SpecFields == InitFields /\ [][NextFields]_vars

---------------------------------------------------------------------------
(* SpecWidths: VariantFormatter.__init__(self, pkg).                       *)

NameCap == 30
WhenCap == 30
ValsCap == 20
MinCols == 70
Margin  == 14

Min(a, b) == IF a < b THEN a ELSE b
Max(a, b) == IF a > b THEN a ELSE b

\* The attributes of self when __init__ starts: those of a new object.
NewObject == [class |-> "VariantFormatter"]

\* lines 78-100.  The result is the object and how the call ended.
VariantFormatter_init(self, variants, columns) ==
    LET self1 == [variants |-> variants,
                  headers  |-> <<"Name [Default]", "When", "Allowed values", "Description">>]
                 @@ self
    IN  IF "column_widths" \notin DOMAIN self1
        THEN \* line 83 reads self.column_widths, which nothing has assigned
             [self |-> self1, ended |-> "AttributeError"]
        ELSE LET cw == self1.column_widths
                 max_name == Min(cw[1], NameCap)
                 max_when == Min(cw[2], WhenCap)
                 max_vals == Min(cw[3], ValsCap)
                 max_description ==
                     Min(cw[4], Max(columns, MinCols) - max_name - max_vals - Margin)
                 widths == <<max_name, max_when, max_vals, max_description>>
             IN  [self  |-> [column_widths |-> widths,
                             fmt |-> <<widths[1] + 4, widths[2] + 4, widths[3] + 4>>]
                            @@ self1,
                  ended |-> "constructed"]

\* The longest content of each column of pkg.variants: name and default,
\* condition, allowed values, description.
ContentWidths ==
    [name : {14, 35}, when : {4, 40}, allowed : {14, 25}, description : {11, 100}]

InitWidths ==
    /\ cols \in 0..MaxCols
    /\ vpkg \in ContentWidths
    /\ vf = NewObject
    /\ vf_status = "new"
    /\ IdleVariants /\ IdleFmt /\ IdleInfo /\ IdleFields

Construct ==
    /\ vf_status = "new"
    /\ LET r == VariantFormatter_init(vf, vpkg, cols)
       IN  vf' = r.self /\ vf_status' = r.ended
    /\ UNCHANGED <<cols, vpkg, varsVariants, varsFmt, varsInfo, varsFields>>

NextWidths == Construct

SpecWidths == InitWidths /\ [][NextWidths]_vars

---------------------------------------------------------------------------
(* Properties.                                                             *)

\* blk is in stream o, starting at index k
IsBlockAt(o, k, blk) ==
    /\ k >= 1 /\ k + Len(blk) - 1 <= Len(o)
    /\ SubSeq(o, k, k + Len(blk) - 1) = blk

KindAt(o, kind) == {j \in 1..Len(o) : o[j].kind = kind}

\* The "name [default]  values" lines of variant name n in the output
NameLines(n) == {j \in KindAt(out, "name_values") : out[j].name = n}

\* The lines after line j that belong to its block: the when and description
\* lines up to the next line of another kind.
BlockTail(o, j) ==
    {k \in (j + 1)..Len(o) :
        \A m \in (j + 1)..k : o[m].kind \in {"when", "description"}}

MultiCondition  == {i \in 1..Len(pkg) : Len(pkg[i].when_variants) > 1}
SingleCondition == {i \in 1..Len(pkg) : Len(pkg[i].when_variants) = 1}

\* Two definitions agree in default, values and description
SameDefinition(a, b) ==
    a.default = b.default /\ a.values = b.values /\ a.description = b.description

AllSameDefinition(e) ==
    LET av == AllVariants(e.when_variants)
    IN  \A i, j \in 1..Len(av) : SameDefinition(av[i], av[j])

MarkersOf(n) == {j \in KindAt(out, "marker") : out[j].name = n}

(* C1: for every variant name with two or more conditions, print_variants  *)
(* writes one marker, "(same)" when all the definitions under all of its   *)
(* conditions agree in default, values and description and "(different)"   *)
(* when two of them differ; in the "(different)" case the block            *)
(* _fmt_variant renders for every (condition, definition) pair of the name *)
(* follows the marker in the output.                                       *)
C1_SameOrDifferent ==
    pc = "done" =>
        \A i \in MultiCondition :
            LET e  == pkg[i]
                wv == e.when_variants
            IN  /\ Cardinality(MarkersOf(e.name)) = 1
                /\ \A m \in MarkersOf(e.name) :
                     /\ out[m].mark = IF AllSameDefinition(e) THEN "same" ELSE "different"
                     /\ ~AllSameDefinition(e) =>
                          \A c \in 1..Len(wv) : \A d \in 1..Len(wv[c].variants) :
                              \E k \in (m + 1)..Len(out) :
                                  IsBlockAt(out, k,
                                      _fmt_variant(wv[c].variants[d], wv[c].when,
                                                   max_name_default_len(pkg), Indent))

C1_Witness ==
    /\ pc = "done"
    /\ \E i \in MultiCondition :
         /\ ~AllSameDefinition(pkg[i])
         /\ \E m \in MarkersOf(pkg[i].name) : out[m].mark = "different"

(* C2: for every variant name with exactly one condition the block         *)
(* rendered for the name holds no "when" line if the condition is the      *)
(* empty Spec and exactly one "when" line otherwise.                       *)
C2_WhenLine ==
    pc = "done" =>
        \A i \in SingleCondition :
            LET e == pkg[i]
                w == e.when_variants[1].when
            IN  /\ Cardinality(NameLines(e.name)) = 1
                /\ \A j \in NameLines(e.name) :
                     Cardinality({k \in BlockTail(out, j) : out[k].kind = "when"})
                         = IF w = EmptySpec THEN 0 ELSE 1

C2_Witness ==
    /\ pc = "done"
    /\ \E i \in SingleCondition :
         /\ pkg[i].when_variants[1].when # EmptySpec
         /\ \E j \in NameLines(pkg[i].name) :
              \E k \in BlockTail(out, j) : out[k].kind = "when"

\* The default as the specification words it: on / off for a bool
DefaultOnOff(d) ==
    IF IsBool(d) THEN (IF d = PyTrue THEN "on" ELSE "off") ELSE StrTab[d[2]]

\* The default as lower-case true / false for a bool
DefaultTrueFalse(d) ==
    IF IsBool(d) THEN (IF d = PyTrue THEN "true" ELSE "false") ELSE StrTab[d[2]]

Rearrangements(n) ==
    {f \in [1..n -> 1..n] : \A i, j \in 1..n : f[i] = f[j] => i = j}

(* C4: the value list _fmt_variant shows is a permutation of the variant's *)
(* values in which the str "none", if present, comes first and the other   *)
(* values follow in ascending order.                                       *)
C4_NoneFirst ==
    fv_pc = "return" =>
        \A j \in KindAt(fv_out, "name_values") :
            LET items == fv.variant.values.items
                shown == fv_out[j].values
            IN  /\ Len(shown) = Len(items)
                /\ \E f \in Rearrangements(Len(items)) :
                     /\ \A i \in 1..Len(items) : shown[i] = _fmt_value(items[f[i]])
                     /\ \A i, k \in 1..Len(items) :
                          i < k =>
                            /\ items[f[k]] = NoneStr => items[f[i]] = NoneStr
                            /\ (items[f[i]] # NoneStr /\ items[f[k]] # NoneStr)
                                 => items[f[i]][2] <= items[f[k]][2]

C4_Witness ==
    /\ fv_pc = "return"
    /\ fv.variant.values.items = <<PyStr(3), NoneStr, PyStr(1)>>
    /\ \E j \in KindAt(fv_out, "name_values") :
         fv_out[j].values = <<"none", "auto", "static">>

(* C5: VariantFormatter.__init__ yields the widths min(longest name and    *)
(* default, 30), min(longest condition, 30), min(longest allowed values,   *)
(* 20) and max(terminal width, 70) - (the sum of the other three) - 14.    *)
C5_ColumnWidths ==
    vf_status # "new" =>
        /\ vf_status = "constructed"
        /\ "column_widths" \in DOMAIN vf
        /\ LET n == Min(vpkg.name, 30)
               w == Min(vpkg.when, 30)
               a == Min(vpkg.allowed, 20)
           IN  vf.column_widths = <<n, w, a, Max(cols, 70) - (n + w + a) - 14>>

(* C6: when the formatter of one selected section raises, every selected   *)
(* section later in the order is still run.                                *)
C6_SectionsIsolated ==
    (status \in {"done", "raised"}) =>
        \A i \in 1..Len(sections) :
            print_it(args, sections[i]) => \E k \in 1..Len(invoked) : invoked[k] = sections[i]

\* The field a formatter reads is empty or absent
FieldEmpty(func) ==
    CASE func = "print_maintainers" -> fpkg.maintainers = <<>>
      [] func = "print_detectable"  -> ~fpkg.executables /\ ~fpkg.libraries
      [] func = "print_phases"      -> ~fpkg.phases.present \/ fpkg.phases.items = <<>>
      [] func = "print_tags"        -> ~fpkg.tags.present \/ fpkg.tags.items = <<>>
      [] func = "print_tests"       ->
            /\ ~fpkg.build_time_test_callbacks.present
            /\ ~fpkg.install_time_test_callbacks.present
            /\ fpkg.test_function_names = <<>>
      [] func = "print_virtuals"    -> fpkg.provided = <<>>
      [] OTHER -> FALSE

(* C7: each of print_tags, print_maintainers, print_detectable,            *)
(* print_phases, print_tests and print_virtuals, run on a package whose    *)
(* field is empty or absent, writes its section title followed by a "None" *)
(* line.                                                                   *)
C7_NoneFallback ==
    (called # "none" /\ FieldEmpty(called)) =>
        \E j \in 1..(Len(fout) - 1) :
            fout[j].kind = "title" /\ fout[j + 1] = NoneLine

\* a < b in lexicographic order
LexLess(a, b) ==
    \E k \in 1..(Len(b)) :
        /\ \A m \in 1..(k - 1) : m <= Len(a) /\ a[m] = b[m]
        /\ (k = Len(a) + 1 \/ (k <= Len(a) /\ a[k] < b[k]))

(* C8: print_variants writes the variant blocks in lexicographic order of  *)
(* variant name, whatever order the by-name mapping iterates in.           *)
C8_LexicographicOrder ==
    pc = "done" =>
        \A i, j \in KindAt(out, "name_values") :
            i < j => ~LexLess(out[j].name, out[i].name)

\* The selection the claim states: the order, the opt-in and the opt-out flags
ClaimedOrder ==
    <<"maintainers", "detectable", "tags", "versions", "variants", "phases",
      "dependencies", "virtuals", "tests">>

ClaimedSelected(a, sec) ==
    \/ a["all"]
    \/ sec \in {"maintainers", "detectable", "tags", "phases", "virtuals", "tests"} /\ a[sec]
    \/ /\ sec \in {"versions", "variants", "dependencies"}
       /\ ~a[CASE sec = "versions" -> "no_versions"
               [] sec = "variants" -> "no_variants"
               [] sec = "dependencies" -> "no_dependencies"]

ClaimedCalls(a) ==
    LET chosen == SelectSeq(ClaimedOrder, LAMBDA sec : ClaimedSelected(a, sec))
    IN  [i \in 1..Len(chosen) |->
            CASE chosen[i] = "maintainers"  -> "print_maintainers"
              [] chosen[i] = "detectable"   -> "print_detectable"
              [] chosen[i] = "tags"         -> "print_tags"
              [] chosen[i] = "versions"     -> "print_versions"
              [] chosen[i] = "variants"     -> "print_variants"
              [] chosen[i] = "phases"       -> "print_phases"
              [] chosen[i] = "dependencies" -> "print_dependencies"
              [] chosen[i] = "virtuals"     -> "print_virtuals"
              [] chosen[i] = "tests"        -> "print_tests"]

(* C9: for every combination of flags the formatters info() invokes are,   *)
(* at every moment, a prefix of the selected sections in the fixed order,  *)
(* each at most once, and when info() returns they are all of them; a      *)
(* section is selected iff "all" is set, or its opt-in flag is set, or its *)
(* opt-out flag is not set.                                                *)
C9_FixedOrder ==
    status # "idle" =>
        LET want == ClaimedCalls(args)
        IN  /\ Len(invoked) <= Len(want)
            /\ invoked = SubSeq(want, 1, Len(invoked))
            /\ status = "done" => invoked = want

C9_Witness ==
    /\ status = "done"
    /\ args["all"] /\ args["no_versions"] /\ ~args["tags"]
    /\ Len(invoked) = Len(sections)

(* C10: when a variant's values is neither a tuple, a list nor a           *)
(* DisjointSetsOfValues, _fmt_variant shows it as a list of one value and  *)
(* writes nothing besides the variant block: the name and values line, the *)
(* when line if there is one, the description.                             *)
C10_SilentNormalization ==
    (fv_pc = "return" /\ ~IsSequenceShape(fv.variant.values)) =>
        /\ \A j \in 1..Len(fv_out) :
             fv_out[j].kind \in {"name_values", "when", "description"}
        /\ \A j \in KindAt(fv_out, "name_values") : Len(fv_out[j].values) = 1

===========================================================================
